---- MODULE Spec2Model ----
(***************************************************************************)
(* Unit conversion core of the groundwater platform                        *)
(* (src/utils/unitConversion.ts): convertUnit, convertToMgL,               *)
(* detectUnitForDataset, parseUnit and getBestDisplayUnit.                 *)
(*                                                                         *)
(* The functions are pure; the state machine is a caller that is either    *)
(* idle or holds the record of the call it has just made (arguments,       *)
(* locals, result).                                                        *)
(*                                                                         *)
(* A TypeScript `number` is an IEEE-754 binary64 value.  It is modelled    *)
(* exactly: sign, 53-bit integer significand (held as a natural number in  *)
(* base-2^15 limbs, because a significand does not fit a 32-bit integer)   *)
(* and binary exponent, with round-to-nearest-even, gradual underflow,     *)
(* overflow to Infinity, and NaN.                                          *)
(***************************************************************************)
EXTENDS Integers, Sequences, FiniteSets, TLC

Max(a, b) == IF a >= b THEN a ELSE b

Min(a, b) == IF a <= b THEN a ELSE b

(***************************************************************************)
(* Natural numbers of any size: little-endian sequences of limbs in        *)
(* 0 .. Base-1 with no leading zero limb; << >> is zero.                   *)
(***************************************************************************)
LimbBits == 15

Base == 2 ^ LimbBits

RECURSIVE BigTrim(_)
BigTrim(a) ==
  IF a = << >> THEN a
  ELSE IF a[Len(a)] = 0 THEN BigTrim(SubSeq(a, 1, Len(a) - 1))
  ELSE a

RECURSIVE BigFromNat(_)
BigFromNat(n) ==
  IF n = 0 THEN << >> ELSE << n % Base >> \o BigFromNat(n \div Base)

Limb(a, i) == IF i >= 1 /\ i <= Len(a) THEN a[i] ELSE 0

RECURSIVE BigCmpFrom(_, _, _)
BigCmpFrom(a, b, i) ==
  IF i = 0 THEN 0
  ELSE IF a[i] < b[i] THEN -1
  ELSE IF a[i] > b[i] THEN 1
  ELSE BigCmpFrom(a, b, i - 1)

\* -1, 0 or 1 as a < b, a = b or a > b
BigCmp(a, b) ==
  IF Len(a) < Len(b) THEN -1
  ELSE IF Len(a) > Len(b) THEN 1
  ELSE BigCmpFrom(a, b, Len(a))

RECURSIVE BigAddFrom(_, _, _, _)
BigAddFrom(a, b, i, carry) ==
  IF i > Max(Len(a), Len(b))
  THEN (IF carry = 0 THEN << >> ELSE << carry >>)
  ELSE LET s == Limb(a, i) + Limb(b, i) + carry
       IN  << s % Base >> \o BigAddFrom(a, b, i + 1, s \div Base)

BigAdd(a, b) == BigAddFrom(a, b, 1, 0)

RECURSIVE BigSubFrom(_, _, _, _)
BigSubFrom(a, b, i, borrow) ==
  IF i > Len(a) THEN << >>
  ELSE LET d == a[i] - Limb(b, i) - borrow
       IN  IF d < 0 THEN << d + Base >> \o BigSubFrom(a, b, i + 1, 1)
           ELSE << d >> \o BigSubFrom(a, b, i + 1, 0)

\* a - b, for a >= b
BigSub(a, b) == BigTrim(BigSubFrom(a, b, 1, 0))

RECURSIVE BigMulSmallFrom(_, _, _, _)
BigMulSmallFrom(a, k, i, carry) ==
  IF i > Len(a)
  THEN (IF carry = 0 THEN << >> ELSE << carry >>)
  ELSE LET p == a[i] * k + carry
       IN  << p % Base >> \o BigMulSmallFrom(a, k, i + 1, p \div Base)

\* a * k, for 0 <= k < Base
BigMulSmall(a, k) == IF k = 0 THEN << >> ELSE BigMulSmallFrom(a, k, 1, 0)

BigShiftLimbs(a, n) == IF a = << >> THEN << >> ELSE [i \in 1 .. n |-> 0] \o a

RECURSIVE BigMul(_, _)
BigMul(a, b) ==
  IF b = << >> THEN << >>
  ELSE BigAdd(BigMulSmall(a, Head(b)), BigShiftLimbs(BigMul(a, Tail(b)), 1))

\* a * 2^k
BigShl(a, k) ==
  BigShiftLimbs(BigMulSmall(a, 2 ^ (k % LimbBits)), k \div LimbBits)

\* a \div 2^k
BigShr(a, k) ==
  LET n == k \div LimbBits
      r == k % LimbBits
      len == Len(a) - n
  IN  IF len <= 0 THEN << >>
      ELSE BigTrim([i \in 1 .. len |->
                      (a[i + n] \div (2 ^ r))
                      + (Limb(a, i + n + 1) % (2 ^ r)) * (2 ^ (LimbBits - r))])

\* a % 2^k
BigLow(a, k) ==
  LET n == k \div LimbBits
      r == k % LimbBits
  IN  IF Len(a) <= n THEN a
      ELSE BigTrim([i \in 1 .. (n + 1) |->
                      IF i <= n THEN a[i] ELSE a[i] % (2 ^ r)])

BigPow2(k) == BigShl(<< 1 >>, k)

RECURSIVE NatBitLen(_)
NatBitLen(n) == IF n = 0 THEN 0 ELSE 1 + NatBitLen(n \div 2)

BigBitLen(a) ==
  IF a = << >> THEN 0 ELSE LimbBits * (Len(a) - 1) + NatBitLen(a[Len(a)])

\* bit i of a, bit 0 the least significant
BigBit(a, i) == (Limb(a, (i \div LimbBits) + 1) \div (2 ^ (i % LimbBits))) % 2

BigOdd(a) == Limb(a, 1) % 2 = 1

RECURSIVE BigQuotDigit(_, _, _, _)
\* the largest k in acc .. acc + 2^(bit+1) - 1 with d * k <= r
BigQuotDigit(r, d, bit, acc) ==
  IF bit < 0 THEN acc
  ELSE IF BigCmp(BigMulSmall(d, acc + 2 ^ bit), r) <= 0
       THEN BigQuotDigit(r, d, bit - 1, acc + 2 ^ bit)
       ELSE BigQuotDigit(r, d, bit - 1, acc)

RECURSIVE BigDivModFrom(_, _, _, _, _)
BigDivModFrom(n, d, i, q, r) ==
  IF i = 0 THEN [q |-> BigTrim(q), r |-> r]
  ELSE LET r1 == BigTrim(<< n[i] >> \o r)
           k == BigQuotDigit(r1, d, LimbBits - 1, 0)
       IN  IF k = 0 THEN BigDivModFrom(n, d, i - 1, << 0 >> \o q, r1)
           ELSE BigDivModFrom(n, d, i - 1, << k >> \o q,
                              BigSub(r1, BigMulSmall(d, k)))

\* quotient and remainder of n by d, for d > 0 (long division, a limb at a time)
BigDivMod(n, d) == BigDivModFrom(n, d, Len(n), << >>, << >>)

(***************************************************************************)
(* number: IEEE-754 binary64.  A finite value is (-1)^s * m * 2^e with m   *)
(* a 53-bit significand (2^52 <= m < 2^53, EMin <= e <= EMax), or a        *)
(* subnormal or zero (m < 2^52, e = EMin).                                 *)
(***************************************************************************)
Precision == 53

EMin == -1074

EMax == 971

Zero(s) == [k |-> "fin", s |-> s, m |-> << >>, e |-> EMin]

Inf(s) == [k |-> "inf", s |-> s, m |-> << >>, e |-> 0]

NaN == [k |-> "nan", s |-> 0, m |-> << >>, e |-> 0]

Pack(s, m, e) ==
  IF m = << >> THEN Zero(s)
  ELSE IF e > EMax THEN Inf(s)
  ELSE [k |-> "fin", s |-> s, m |-> m, e |-> e]

\* The binary64 nearest to (-1)^s * (M + f) * 2^e, ties to even, where
\* 0 <= f < 1 and f > 0 exactly when sticky.
RoundPack(s, M, e, sticky) ==
  LET shift == Max(BigBitLen(M) - Precision, EMin - e)
  IN  IF shift <= 0 THEN Pack(s, BigShl(M, -shift), e + shift)
      ELSE LET q == BigShr(M, shift)
               c == BigCmp(BigLow(M, shift), BigPow2(shift - 1))
               up == c > 0 \/ (c = 0 /\ (sticky \/ BigOdd(q)))
               q1 == IF up THEN BigAdd(q, << 1 >>) ELSE q
               carry == BigBitLen(q1) > Precision
           IN  Pack(s, IF carry THEN BigShr(q1, 1) ELSE q1,
                    IF carry THEN e + shift + 1 ELSE e + shift)

IsZero(x) == x.k = "fin" /\ x.m = << >>

\* x * y
FMul(x, y) ==
  LET s == (x.s + y.s) % 2
  IN  IF x.k = "nan" \/ y.k = "nan" THEN NaN
      ELSE IF x.k = "inf" \/ y.k = "inf"
           THEN (IF IsZero(x) \/ IsZero(y) THEN NaN ELSE Inf(s))
      ELSE RoundPack(s, BigMul(x.m, y.m), x.e + y.e, FALSE)

\* x / y
FDiv(x, y) ==
  LET s == (x.s + y.s) % 2
  IN  IF x.k = "nan" \/ y.k = "nan" THEN NaN
      ELSE IF x.k = "inf" THEN (IF y.k = "inf" THEN NaN ELSE Inf(s))
      ELSE IF y.k = "inf" THEN Zero(s)
      ELSE IF IsZero(y) THEN (IF IsZero(x) THEN NaN ELSE Inf(s))
      ELSE IF IsZero(x) THEN Zero(s)
      ELSE LET k == Precision + 2 + BigBitLen(y.m) - BigBitLen(x.m)
               dm == BigDivMod(BigShl(x.m, k), y.m)
           IN  RoundPack(s, dm.q, x.e - y.e - k, dm.r # << >>)

\* -1, 0 or 1 as |x| < |y|, |x| = |y| or |x| > |y|, for x and y not NaN
MagCmp(x, y) ==
  IF x.k = "inf" \/ y.k = "inf"
  THEN (IF x.k = y.k THEN 0 ELSE IF y.k = "inf" THEN -1 ELSE 1)
  ELSE IF x.e # y.e THEN (IF x.e < y.e THEN -1 ELSE 1)
  ELSE BigCmp(x.m, y.m)

\* -1, 0 or 1 as x < y, x = y or x > y, for x and y not NaN
FCmp(x, y) ==
  IF IsZero(x) /\ IsZero(y) THEN 0
  ELSE IF x.s # y.s THEN (IF x.s = 1 THEN -1 ELSE 1)
  ELSE IF x.s = 0 THEN MagCmp(x, y)
  ELSE MagCmp(y, x)

\* A comparison is false unless both operands are numbers other than NaN
\* (undefined converts to NaN).
Ordered(x, y) == x.k \in { "fin", "inf" } /\ y.k \in { "fin", "inf" }

FLt(x, y) == Ordered(x, y) /\ FCmp(x, y) < 0

FLe(x, y) == Ordered(x, y) /\ FCmp(x, y) <= 0

FGt(x, y) == Ordered(x, y) /\ FCmp(x, y) > 0

FGe(x, y) == Ordered(x, y) /\ FCmp(x, y) >= 0

\* the number an integer literal n denotes
FromInt(n) ==
  RoundPack(IF n < 0 THEN 1 ELSE 0, BigFromNat(IF n < 0 THEN -n ELSE n), 0, FALSE)

\* the number the decimal literal n / 10^k denotes: the binary64 nearest to
\* it, which is what the correctly rounded quotient of the exact n by the
\* exact 10^k is
Dec(n, k) == FDiv(FromInt(n), FromInt(10 ^ k))

\* 2^k
Pow2(k) == RoundPack(0, << 1 >>, k, FALSE)

(***************************************************************************)
(* string: a sequence of characters.  A character is a one-character       *)
(* string; the three non-ASCII characters the unit symbols involve are     *)
(* written as their code points.                                           *)
(***************************************************************************)
GreekSmallMu == "U+03BC"

GreekCapitalMu == "U+039C"

MicroSign == "U+00B5"

UpperLetters ==
  << "A", "B", "C", "D", "E", "F", "G", "H", "I", "J", "K", "L", "M", "N",
     "O", "P", "Q", "R", "S", "T", "U", "V", "W", "X", "Y", "Z",
     GreekCapitalMu >>

LowerLetters ==
  << "a", "b", "c", "d", "e", "f", "g", "h", "i", "j", "k", "l", "m", "n",
     "o", "p", "q", "r", "s", "t", "u", "v", "w", "x", "y", "z",
     GreekSmallMu >>

\* String.prototype.toLowerCase, a character at a time
toLowerChar(c) ==
  IF \E i \in 1 .. Len(UpperLetters) : UpperLetters[i] = c
  THEN LowerLetters[CHOOSE i \in 1 .. Len(UpperLetters) : UpperLetters[i] = c]
  ELSE c

\* String.prototype.toUpperCase, a character at a time (the micro sign's
\* upper case is the Greek capital mu)
toUpperChar(c) ==
  IF \E i \in 1 .. Len(LowerLetters) : LowerLetters[i] = c
  THEN UpperLetters[CHOOSE i \in 1 .. Len(LowerLetters) : LowerLetters[i] = c]
  ELSE IF c = MicroSign THEN GreekCapitalMu
  ELSE c

toLowerCase(str) == [i \in 1 .. Len(str) |-> toLowerChar(str[i])]

toUpperCase(str) == [i \in 1 .. Len(str) |-> toUpperChar(str[i])]

\* the characters String.prototype.trim strips (WhiteSpace and
\* LineTerminator of ECMAScript)
WhiteSpace ==
  { " ", "\t", "\n", "\r", "\f", "U+000B", "U+00A0", "U+FEFF", "U+2028",
    "U+2029" }

RECURSIVE trimStart(_)
trimStart(str) ==
  IF str # << >> /\ Head(str) \in WhiteSpace THEN trimStart(Tail(str)) ELSE str

RECURSIVE trimEnd(_)
trimEnd(str) ==
  IF str # << >> /\ str[Len(str)] \in WhiteSpace
  THEN trimEnd(SubSeq(str, 1, Len(str) - 1))
  ELSE str

trim(str) == trimEnd(trimStart(str))

(***************************************************************************)
(* Unit, UNIT_INFO, AVAILABLE_UNITS, Metal, TYPICAL_RANGES                 *)
(***************************************************************************)
\* The module's constant tables are built once, when the module is loaded,
\* and read from then on: they are part of the state and never change.
VARIABLES UNIT_INFO, TYPICAL_RANGES, call

vars == << UNIT_INFO, TYPICAL_RANGES, call >>

Unit == { "MG_L", "PPM", "PPB", "UG_L" }

\* the initializer of UNIT_INFO
UNIT_INFO_value ==
  [ MG_L |-> [symbol |-> << "m", "g", "/", "L" >>,
              name |-> << "M", "i", "l", "l", "i", "g", "r", "a", "m", "s", " ", "p", "e", "r", " ", "L", "i", "t", "e", "r" >>,
              toMgL |-> FromInt(1)],
    PPM  |-> [symbol |-> << "p", "p", "m" >>,
              name |-> << "P", "a", "r", "t", "s", " ", "p", "e", "r", " ", "M", "i", "l", "l", "i", "o", "n" >>,
              toMgL |-> FromInt(1)],
    PPB  |-> [symbol |-> << "p", "p", "b" >>,
              name |-> << "P", "a", "r", "t", "s", " ", "p", "e", "r", " ", "B", "i", "l", "l", "i", "o", "n" >>,
              toMgL |-> Dec(1, 3)],
    UG_L |-> [symbol |-> << GreekSmallMu, "g", "/", "L" >>,
              name |-> << "M", "i", "c", "r", "o", "g", "r", "a", "m", "s", " ", "p", "e", "r", " ", "L", "i", "t", "e", "r" >>,
              toMgL |-> Dec(1, 3)] ]

\* Object.values(Unit): the enumeration order
AVAILABLE_UNITS == << "MG_L", "PPM", "PPB", "UG_L" >>

Metal == { "Pb", "As", "Hg", "Cd", "Cr", "Ni", "Zn", "Fe" }

\* the order of the metals' keys
MetalOrder == << "Pb", "As", "Hg", "Cd", "Cr", "Ni", "Zn", "Fe" >>

Range(lo, hi) == [min |-> lo, max |-> hi]

\* the initializer of TYPICAL_RANGES: typical ranges for each metal in
\* different units
TYPICAL_RANGES_value ==
  [ Pb |-> [ MG_L |-> Range(Dec(1, 4), Dec(1, 1)),
             PPM  |-> Range(Dec(1, 4), Dec(1, 1)),
             PPB  |-> Range(Dec(1, 1), FromInt(100)),
             UG_L |-> Range(Dec(1, 1), FromInt(100)) ],
    As |-> [ MG_L |-> Range(Dec(1, 4), Dec(1, 1)),
             PPM  |-> Range(Dec(1, 4), Dec(1, 1)),
             PPB  |-> Range(Dec(1, 1), FromInt(100)),
             UG_L |-> Range(Dec(1, 1), FromInt(100)) ],
    Hg |-> [ MG_L |-> Range(Dec(1, 5), Dec(1, 2)),
             PPM  |-> Range(Dec(1, 5), Dec(1, 2)),
             PPB  |-> Range(Dec(1, 2), FromInt(10)),
             UG_L |-> Range(Dec(1, 2), FromInt(10)) ],
    Cd |-> [ MG_L |-> Range(Dec(1, 4), Dec(1, 2)),
             PPM  |-> Range(Dec(1, 4), Dec(1, 2)),
             PPB  |-> Range(Dec(1, 1), FromInt(10)),
             UG_L |-> Range(Dec(1, 1), FromInt(10)) ],
    Cr |-> [ MG_L |-> Range(Dec(1, 3), Dec(5, 1)),
             PPM  |-> Range(Dec(1, 3), Dec(5, 1)),
             PPB  |-> Range(FromInt(1), FromInt(500)),
             UG_L |-> Range(FromInt(1), FromInt(500)) ],
    Ni |-> [ MG_L |-> Range(Dec(1, 3), Dec(2, 1)),
             PPM  |-> Range(Dec(1, 3), Dec(2, 1)),
             PPB  |-> Range(FromInt(1), FromInt(200)),
             UG_L |-> Range(FromInt(1), FromInt(200)) ],
    Zn |-> [ MG_L |-> Range(Dec(1, 2), FromInt(10)),
             PPM  |-> Range(Dec(1, 2), FromInt(10)),
             PPB  |-> Range(FromInt(10), FromInt(10000)),
             UG_L |-> Range(FromInt(10), FromInt(10000)) ],
    Fe |-> [ MG_L |-> Range(Dec(1, 2), FromInt(5)),
             PPM  |-> Range(Dec(1, 2), FromInt(5)),
             PPB  |-> Range(FromInt(10), FromInt(5000)),
             UG_L |-> Range(FromInt(10), FromInt(5000)) ] ]

(***************************************************************************)
(* convertUnit, convertToMgL                                               *)
(***************************************************************************)
\* the target factor multiplied in instead of divided out
convertUnit_multiplies(value, fromUnit, toUnit) ==
  IF fromUnit = toUnit THEN value
  ELSE FMul(FMul(value, UNIT_INFO[fromUnit].toMgL), UNIT_INFO[toUnit].toMgL)

convertUnit(value, fromUnit, toUnit) ==
  IF fromUnit = toUnit THEN value
  ELSE LET mgLValue == FMul(value, UNIT_INFO[fromUnit].toMgL)
       IN  FDiv(mgLValue, UNIT_INFO[toUnit].toMgL)

convertToMgL(concentration) ==
  convertUnit(concentration.value, concentration.unit, "MG_L")

(***************************************************************************)
(* detectUnitForDataset                                                    *)
(***************************************************************************)
\* a concentration that is absent
Undefined == [k |-> "undefined"]

\* the test with >= in place of >
isCollected_or_zero(value) == value # Undefined /\ FGe(value, FromInt(0))

\* value !== undefined && value > 0
isCollected(value) == value # Undefined /\ FGt(value, FromInt(0))

\* Object.values(sample.concentrations)
valuesOf(sample) ==
  [i \in 1 .. Len(MetalOrder) |-> sample.concentrations[MetalOrder[i]]]

RECURSIVE collectValues(_)
\* allValues after samples.forEach
collectValues(samples) ==
  IF samples = << >> THEN << >>
  ELSE SelectSeq(valuesOf(Head(samples)), isCollected)
       \o collectValues(Tail(samples))

\* the band of the wrong unit for ppm
rangeOf_ppm_as_ppb(metalRanges, unit) ==
  IF unit = "PPM" THEN metalRanges["PPB"] ELSE metalRanges[unit]

\* const range = metalRanges[unit]
rangeOf(metalRanges, unit) == metalRanges[unit]

\* the test without the upper end
inRange_no_max(value, range) == FGe(value, range.min)

\* value >= range.min && value <= range.max
inRange(value, range) == FGe(value, range.min) /\ FLe(value, range.max)

\* fitsInAnyRange after Object.values(TYPICAL_RANGES).forEach
fitsInAnyRange(value, unit) ==
  \E metal \in Metal : inRange(value, rangeOf(TYPICAL_RANGES[metal], unit))

\* the score incremented inside the loop over the metals
increment_per_metal(value, unit) ==
  Cardinality({metal \in Metal :
                 inRange(value, rangeOf(TYPICAL_RANGES[metal], unit))})

\* what one value adds to unitScores[unit]
increment(value, unit) == IF fitsInAnyRange(value, unit) THEN 1 ELSE 0

RECURSIVE scoreValues(_, _)
\* unitScores after allValues.forEach
scoreValues(allValues, unitScores) ==
  IF allValues = << >> THEN unitScores
  ELSE scoreValues(Tail(allValues),
                   [unit \in Unit |->
                      unitScores[unit] + increment(Head(allValues), unit)])

\* the comparison that also replaces on a tie
isBetter_or_equal(score, bestScore) == score >= bestScore

\* unitScores[unit] > bestScore
isBetter(score, bestScore) == score > bestScore

RECURSIVE pickBest(_, _, _, _)
\* bestUnit after AVAILABLE_UNITS.forEach, from position i on
pickBest(unitScores, i, bestUnit, bestScore) ==
  IF i > Len(AVAILABLE_UNITS) THEN bestUnit
  ELSE IF isBetter(unitScores[AVAILABLE_UNITS[i]], bestScore)
       THEN pickBest(unitScores, i + 1, AVAILABLE_UNITS[i],
                     unitScores[AVAILABLE_UNITS[i]])
       ELSE pickBest(unitScores, i + 1, bestUnit, bestScore)

\* The result with the locals it was computed from; `at` is the return
\* statement taken.  allValues and unitScores are << >> where the code has
\* not built them.
detectUnitForDataset(samples) ==
  IF Len(samples) = 0
  THEN [at |-> "no samples", allValues |-> << >>, unitScores |-> << >>,
        result |-> "MG_L"]
  ELSE LET allValues == collectValues(samples)
       IN  IF Len(allValues) = 0
           THEN [at |-> "no values", allValues |-> allValues,
                 unitScores |-> << >>, result |-> "MG_L"]
           ELSE LET unitScores ==
                      scoreValues(allValues, [unit \in Unit |-> 0])
                IN  [at |-> "scored", allValues |-> allValues,
                     unitScores |-> unitScores,
                     result |-> pickBest(unitScores, 1, "MG_L",
                                         unitScores["MG_L"])]

(***************************************************************************)
(* parseUnit                                                               *)
(***************************************************************************)
\* lower-casing without trim
normalize_no_trim(unitStr) == toLowerCase(unitStr)

\* unitStr.toLowerCase().trim()
normalize(unitStr) == trim(toLowerCase(unitStr))

unitMappings ==
  (<< "m", "g", "/", "l" >> :> "MG_L")
  @@ (<< "m", "g", "l" >> :> "MG_L")
  @@ (<< "m", "g", " ", "p", "e", "r", " ", "l" >> :> "MG_L")
  @@ (<< "m", "g", " ", "p", "e", "r", " ", "l", "i", "t", "e", "r" >> :> "MG_L")
  @@ (<< "m", "i", "l", "l", "i", "g", "r", "a", "m", "s", " ", "p", "e", "r", " ", "l", "i", "t", "e", "r" >> :> "MG_L")
  @@ (<< "p", "p", "m" >> :> "PPM")
  @@ (<< "p", "a", "r", "t", "s", " ", "p", "e", "r", " ", "m", "i", "l", "l", "i", "o", "n" >> :> "PPM")
  @@ (<< "p", "p", "b" >> :> "PPB")
  @@ (<< "p", "a", "r", "t", "s", " ", "p", "e", "r", " ", "b", "i", "l", "l", "i", "o", "n" >> :> "PPB")
  @@ (<< GreekSmallMu, "g", "/", "l" >> :> "UG_L")
  @@ (<< "u", "g", "/", "l" >> :> "UG_L")
  @@ (<< "u", "g", "l" >> :> "UG_L")
  @@ (<< "m", "i", "c", "r", "o", "g", "r", "a", "m", "s", " ", "p", "e", "r", " ", "l", "i", "t", "e", "r" >> :> "UG_L")
  @@ (<< GreekSmallMu, "g", " ", "p", "e", "r", " ", "l" >> :> "UG_L")
  @@ (<< "u", "g", " ", "p", "e", "r", " ", "l" >> :> "UG_L")

\* What an object literal inherits: the properties of Object.prototype,
\* each with the value a read of it yields.
ObjectPrototype ==
  (<< "c", "o", "n", "s", "t", "r", "u", "c", "t", "o", "r" >> :> "[Function: Object]")
  @@ (<< "_", "_", "p", "r", "o", "t", "o", "_", "_" >> :> "[Object: null prototype] {}")
  @@ (<< "h", "a", "s", "O", "w", "n", "P", "r", "o", "p", "e", "r", "t", "y" >> :> "[Function: hasOwnProperty]")
  @@ (<< "i", "s", "P", "r", "o", "t", "o", "t", "y", "p", "e", "O", "f" >> :> "[Function: isPrototypeOf]")
  @@ (<< "p", "r", "o", "p", "e", "r", "t", "y", "I", "s", "E", "n", "u", "m", "e", "r", "a", "b", "l", "e" >> :> "[Function: propertyIsEnumerable]")
  @@ (<< "t", "o", "L", "o", "c", "a", "l", "e", "S", "t", "r", "i", "n", "g" >> :> "[Function: toLocaleString]")
  @@ (<< "t", "o", "S", "t", "r", "i", "n", "g" >> :> "[Function: toString]")
  @@ (<< "v", "a", "l", "u", "e", "O", "f" >> :> "[Function: valueOf]")
  @@ (<< "_", "_", "d", "e", "f", "i", "n", "e", "G", "e", "t", "t", "e", "r", "_", "_" >> :> "[Function: __defineGetter__]")
  @@ (<< "_", "_", "d", "e", "f", "i", "n", "e", "S", "e", "t", "t", "e", "r", "_", "_" >> :> "[Function: __defineSetter__]")
  @@ (<< "_", "_", "l", "o", "o", "k", "u", "p", "G", "e", "t", "t", "e", "r", "_", "_" >> :> "[Function: __lookupGetter__]")
  @@ (<< "_", "_", "l", "o", "o", "k", "u", "p", "S", "e", "t", "t", "e", "r", "_", "_" >> :> "[Function: __lookupSetter__]")

\* unitMappings[normalized]: an own property, else an inherited one, else
\* undefined
lookup(normalized) ==
  IF normalized \in DOMAIN unitMappings THEN unitMappings[normalized]
  ELSE IF normalized \in DOMAIN ObjectPrototype
       THEN ObjectPrototype[normalized]
  ELSE "undefined"

\* unitMappings[normalized] || null (a unit, a function and an object are
\* truthy, undefined is falsy)
parseUnit(unitStr) ==
  IF lookup(normalize(unitStr)) = "undefined" THEN "null"
  ELSE lookup(normalize(unitStr))

(***************************************************************************)
(* getBestDisplayUnit                                                      *)
(***************************************************************************)
\* the first threshold tested with <= instead of <
getBestDisplayUnit_le(value, currentUnit, metal) ==
  LET mgLValue == convertUnit(value, currentUnit, "MG_L")
  IN  IF FLe(mgLValue, Dec(1, 3))
      THEN (IF FGe(convertUnit(mgLValue, "MG_L", "PPB"), Dec(1, 1))
            THEN "PPB" ELSE "UG_L")
      ELSE IF FGe(mgLValue, Dec(1, 3)) THEN "MG_L" ELSE "PPM"

getBestDisplayUnit(value, currentUnit, metal) ==
  LET mgLValue == convertUnit(value, currentUnit, "MG_L")
  IN  IF FLt(mgLValue, Dec(1, 3))
      THEN LET ppbValue == convertUnit(mgLValue, "MG_L", "PPB")
           IN  IF FGe(ppbValue, Dec(1, 1)) THEN "PPB" ELSE "UG_L"
      ELSE IF FGe(mgLValue, Dec(1, 3)) THEN "MG_L" ELSE "PPM"

(***************************************************************************)
(* The inputs the calls are made with                                      *)
(***************************************************************************)
\* the most samples in a dataset
MaxSamples == 2

\* the most whitespace characters on either side of a unit string
MaxPad == 1

\* values converted: 0, 1, 80, 2.3, 15.7, -15.7, 0.07, 0.0005, the largest
\* power of two, Infinity
ConvertValues ==
  { FromInt(0), FromInt(1), FromInt(80), Dec(23, 1), Dec(157, 1),
    Dec(-157, 1), Dec(7, 2), Dec(5, 4), Pow2(1023), Inf(0) }

\* non-negative values displayed: 0, 0.00005, 0.0001, 0.0005, 0.001, 0.05,
\* 0.1, 0.5, 1, 2.3, 80, the smallest subnormal, Infinity
DisplayValues ==
  { FromInt(0), Dec(5, 5), Dec(1, 4), Dec(5, 4), Dec(1, 3), Dec(5, 2),
    Dec(1, 1), Dec(5, 1), FromInt(1), Dec(23, 1), FromInt(80), Pow2(EMin),
    Inf(0) }

NoReadings == [metal \in Metal |-> Undefined]

Sample(concentrations) == [concentrations |-> concentrations]

OneReading(metal, value) == Sample([NoReadings EXCEPT ![metal] = value])

\* readings under Pb: 0, -1, 0.000001, 0.00001, 0.00005, 0.05, 5, 10, 50,
\* 80, 500, 10000, 20000
DetectValues ==
  { FromInt(0), FromInt(-1), Dec(1, 6), Dec(1, 5), Dec(5, 5), Dec(5, 2),
    FromInt(5), FromInt(10), FromInt(50), FromInt(80), FromInt(500),
    FromInt(10000), FromInt(20000) }

\* Pb=80, Cr=150, Zn=300
LabSample ==
  Sample([NoReadings EXCEPT !["Pb"] = FromInt(80), !["Cr"] = FromInt(150),
                            !["Zn"] = FromInt(300)])

\* Pb=0.00005, Hg=0.00005, Zn=300
MixedSample ==
  Sample([NoReadings EXCEPT !["Pb"] = Dec(5, 5), !["Hg"] = Dec(5, 5),
                            !["Zn"] = FromInt(300)])

AllZeroSample == Sample([metal \in Metal |-> FromInt(0)])

SampleChoices ==
  { OneReading("Pb", value) : value \in DetectValues }
  \cup { OneReading("Zn", FromInt(5)), OneReading("Zn", FromInt(80)),
         Sample(NoReadings), AllZeroSample, LabSample, MixedSample }

Datasets == UNION { [1 .. n -> SampleChoices] : n \in 0 .. MaxSamples }

\* strings no table lists
OtherStrings ==
  { << "b", "a", "n", "a", "n", "a" >>, << "c", "o", "n", "s", "t", "r", "u", "c", "t", "o", "r" >>, << "_", "_", "p", "r", "o", "t", "o", "_", "_" >>, << "t", "o", "S", "t", "r", "i", "n", "g" >>, << >>,
    << "m", "g", " ", "/", " ", "l" >>, << "m", "g" >>, << MicroSign, "g", "/", "l" >> }

\* every spelling the registry and the mapping table list for a unit
Spellings(unit) ==
  { UNIT_INFO[unit].symbol, UNIT_INFO[unit].name }
  \cup { key \in DOMAIN unitMappings : unitMappings[key] = unit }

BaseStrings == OtherStrings \cup UNION { Spellings(unit) : unit \in Unit }

CaseStyles == { "as is", "lower", "upper", "alternating" }

recase(str, style) ==
  CASE style = "as is" -> str
    [] style = "lower" -> toLowerCase(str)
    [] style = "upper" -> toUpperCase(str)
    [] style = "alternating" ->
         [i \in 1 .. Len(str) |->
            IF i % 2 = 1 THEN toUpperChar(str[i]) ELSE toLowerChar(str[i])]

PadChars == { " ", "\t" }

Pads == UNION { [1 .. n -> PadChars] : n \in 0 .. MaxPad }

(***************************************************************************)
(* The caller                                                              *)
(***************************************************************************)
Idle == [fn |-> "none"]

Init ==
  /\ UNIT_INFO = UNIT_INFO_value
  /\ TYPICAL_RANGES = TYPICAL_RANGES_value
  /\ call = Idle

\* convertUnit(value, fromUnit, toUnit)
CallConvertUnit ==
  /\ call = Idle
  /\ \E value \in ConvertValues, fromUnit \in Unit, toUnit \in Unit :
       call' = [fn |-> "convertUnit", first |-> value, back |-> FALSE,
                value |-> value, fromUnit |-> fromUnit, toUnit |-> toUnit,
                result |-> convertUnit(value, fromUnit, toUnit)]
  /\ UNCHANGED << UNIT_INFO, TYPICAL_RANGES >>

\* the result converted back: convertUnit(result, toUnit, fromUnit)
CallConvertBack ==
  /\ call.fn = "convertUnit"
  /\ ~call.back
  /\ call' = [fn |-> "convertUnit", first |-> call.first, back |-> TRUE,
              value |-> call.result, fromUnit |-> call.toUnit,
              toUnit |-> call.fromUnit,
              result |-> convertUnit(call.result, call.toUnit, call.fromUnit)]
  /\ UNCHANGED << UNIT_INFO, TYPICAL_RANGES >>

\* convertToMgL({ value, unit })
CallConvertToMgL ==
  /\ call = Idle
  /\ \E value \in ConvertValues, unit \in Unit :
       call' = [fn |-> "convertToMgL",
                concentration |-> [value |-> value, unit |-> unit],
                result |-> convertToMgL([value |-> value, unit |-> unit])]
  /\ UNCHANGED << UNIT_INFO, TYPICAL_RANGES >>

\* detectUnitForDataset(samples)
CallDetectUnitForDataset ==
  /\ call = Idle
  /\ \E samples \in Datasets :
       call' = [fn |-> "detectUnitForDataset", samples |-> samples,
                ret |-> detectUnitForDataset(samples)]
  /\ UNCHANGED << UNIT_INFO, TYPICAL_RANGES >>

\* parseUnit(unitStr), unitStr a spelling in some letter case between pads
CallParseUnit ==
  /\ call = Idle
  /\ \E spelling \in BaseStrings, style \in CaseStyles,
        lead \in Pads, trail \in Pads :
       LET unitStr == lead \o recase(spelling, style) \o trail
       IN  call' = [fn |-> "parseUnit", spelling |-> spelling,
                    unitStr |-> unitStr, normalized |-> normalize(unitStr),
                    result |-> parseUnit(unitStr)]
  /\ UNCHANGED << UNIT_INFO, TYPICAL_RANGES >>

\* getBestDisplayUnit(value, currentUnit, metal)
CallGetBestDisplayUnit ==
  /\ call = Idle
  /\ \E value \in DisplayValues, currentUnit \in Unit, metal \in Metal :
       call' = [fn |-> "getBestDisplayUnit", value |-> value,
                currentUnit |-> currentUnit, metal |-> metal,
                mgLValue |-> convertUnit(value, currentUnit, "MG_L"),
                result |-> getBestDisplayUnit(value, currentUnit, metal)]
  /\ UNCHANGED << UNIT_INFO, TYPICAL_RANGES >>

\* the call returns to the caller
Return ==
  /\ call.fn # "none"
  /\ call' = Idle
  /\ UNCHANGED << UNIT_INFO, TYPICAL_RANGES >>

Next ==
  \/ CallConvertUnit
  \/ CallConvertBack
  \/ CallConvertToMgL
  \/ CallDetectUnitForDataset
  \/ CallParseUnit
  \/ CallGetBestDisplayUnit
  \/ Return

Spec == Init /\ [][Next]_vars

(***************************************************************************)
(* Properties                                                              *)
(***************************************************************************)
ConvertCall == call.fn = "convertUnit"

DetectCall == call.fn = "detectUnitForDataset"

ParseCall == call.fn = "parseUnit"

DisplayCall == call.fn = "getBestDisplayUnit"

\* the position of a unit in the enumeration order
Position(unit) == CHOOSE i \in 1 .. Len(AVAILABLE_UNITS) : AVAILABLE_UNITS[i] = unit

\* the readings of a dataset: (sample, metal) places holding a value
Present(samples) ==
  { p \in (1 .. Len(samples)) \X Metal :
      samples[p[1]].concentrations[p[2]] # Undefined }

Reading(samples, p) == samples[p[1]].concentrations[p[2]]

Positive(samples) ==
  { p \in Present(samples) : FGt(Reading(samples, p), FromInt(0)) }

\* C1: for a sample list with at least one strictly positive value, the
\* returned unit has the maximum score of the four units, and every unit
\* earlier in the enumeration order MG_L, PPM, PPB, UG_L has a strictly
\* smaller score.
C1_MaxScoreEarliestUnit ==
  (DetectCall /\ Positive(call.samples) # { }) =>
    /\ call.ret.at = "scored"
    /\ \A unit \in Unit :
         /\ call.ret.unitScores[unit] <= call.ret.unitScores[call.ret.result]
         /\ Position(unit) < Position(call.ret.result) =>
              call.ret.unitScores[unit] < call.ret.unitScores[call.ret.result]

\* a dataset whose best score is shared by both families of units and is not
\* zero: the earliest unit, MG_L, is returned
C1_Witness ==
  /\ DetectCall
  /\ Positive(call.samples) # { }
  /\ call.ret.at = "scored"
  /\ call.ret.unitScores["MG_L"] > 0
  /\ call.ret.unitScores["PPB"] = call.ret.unitScores["MG_L"]
  /\ call.ret.result = "MG_L"

\* C2 as stated: for a non-negative value getBestDisplayUnit returns only
\* MG_L or PPB: PPB for every canonical magnitude below 0.001 mg/L, MG_L for
\* every magnitude of at least 0.001 mg/L.
C2_OnlyMgLOrPpb ==
  DisplayCall =>
    /\ call.result \in { "MG_L", "PPB" }
    /\ FLt(call.mgLValue, Dec(1, 3)) => call.result = "PPB"
    /\ FGe(call.mgLValue, Dec(1, 3)) => call.result = "MG_L"

\* C2, amended: for a non-negative value getBestDisplayUnit never returns
\* PPM; a canonical magnitude of at least 0.001 mg/L yields MG_L, one of at
\* least 0.0001 and below 0.001 yields PPB, and one below 0.001 whose PPB
\* magnitude (the magnitude divided by 0.001) is below 0.1 yields UG_L, which
\* is the case of 0 and of every magnitude up to 0.00005.
C2_MgLPpbOrUgL ==
  DisplayCall =>
    /\ call.result \in { "MG_L", "PPB", "UG_L" }
    /\ FGe(call.mgLValue, Dec(1, 3)) => call.result = "MG_L"
    /\ (FGe(call.mgLValue, Dec(1, 4)) /\ FLt(call.mgLValue, Dec(1, 3))) =>
         call.result = "PPB"
    /\ (FLt(call.mgLValue, Dec(1, 3))
        /\ FLt(FDiv(call.mgLValue, Dec(1, 3)), Dec(1, 1))) =>
         call.result = "UG_L"
    /\ FLe(call.mgLValue, Dec(5, 5)) => call.result = "UG_L"

\* 0.05 ppb, a canonical magnitude of 0.00005 mg/L, is shown in UG_L
C2_Witness ==
  /\ DisplayCall
  /\ call.value = Dec(5, 2)
  /\ call.currentUnit = "PPB"
  /\ FLt(call.mgLValue, Dec(1, 4))
  /\ FGt(call.mgLValue, FromInt(0))
  /\ call.result = "UG_L"

\* C3: parseUnit returns null for every string whose lower-cased, trimmed
\* form is not a key of the mapping table; its result is always one of the
\* four units or null.
C3_UnitOrNull ==
  ParseCall =>
    /\ call.normalized \notin DOMAIN unitMappings => call.result = "null"
    /\ call.result \in Unit \cup { "null" }

\* C4: the score of PPM equals the score of MG_L and the score of UG_L equals
\* the score of PPB, and detectUnitForDataset returns neither PPM nor UG_L.
C4_PairsIndistinguishable ==
  DetectCall =>
    /\ call.ret.at = "scored" =>
         /\ call.ret.unitScores["PPM"] = call.ret.unitScores["MG_L"]
         /\ call.ret.unitScores["UG_L"] = call.ret.unitScores["PPB"]
    /\ call.ret.result \notin { "PPM", "UG_L" }

\* a dataset that scores for both families and more for PPB and UG_L: PPB is
\* returned, not UG_L
C4_Witness ==
  /\ DetectCall
  /\ call.ret.at = "scored"
  /\ call.ret.unitScores["MG_L"] > 0
  /\ call.ret.unitScores["UG_L"] > call.ret.unitScores["PPM"]
  /\ call.ret.result = "PPB"

\* C5: detectUnitForDataset returns MG_L when the sample list is empty or no
\* reading is strictly positive, and the values it scores are the strictly
\* positive readings and no others: a unit's score never exceeds their
\* number.
C5_DefaultWithoutPositiveValues ==
  DetectCall =>
    /\ Positive(call.samples) = { } =>
         call.ret.result = "MG_L" /\ call.ret.at # "scored"
    /\ Len(call.ret.allValues) = Cardinality(Positive(call.samples))
    /\ \A i \in 1 .. Len(call.ret.allValues) :
         FGt(call.ret.allValues[i], FromInt(0))
    /\ call.ret.at = "scored" =>
         \A unit \in Unit :
           call.ret.unitScores[unit] <= Cardinality(Positive(call.samples))

\* a dataset with readings, none of them strictly positive
C5_Witness ==
  /\ DetectCall
  /\ Len(call.samples) > 0
  /\ Present(call.samples) # { }
  /\ \E p \in Present(call.samples) :
       FLt(Reading(call.samples, p), FromInt(0))
  /\ Positive(call.samples) = { }
  /\ call.ret.at = "no values"
  /\ call.ret.result = "MG_L"

AllWithin50And500(samples) ==
  \A p \in Present(samples) :
    /\ FGe(Reading(samples, p), FromInt(50))
    /\ FLe(Reading(samples, p), FromInt(500))

PpbFamilyWins(ret) ==
  /\ ret.at = "scored"
  /\ \A low \in { "PPB", "UG_L" }, high \in { "MG_L", "PPM" } :
       ret.unitScores[low] > ret.unitScores[high]
  /\ ret.result = "PPB"

\* C6 as stated: for every non-empty dataset in which every present reading
\* lies in 50 .. 500, PPB and UG_L score strictly higher than MG_L and PPM
\* and PPB is returned.
C6_Range50To500IsPpb ==
  (DetectCall /\ Len(call.samples) > 0 /\ AllWithin50And500(call.samples)) =>
    PpbFamilyWins(call.ret)

\* C6, amended: for every dataset with at least one present reading in which
\* every present reading lies in 50 .. 500, PPB and UG_L score strictly
\* higher than MG_L and PPM and PPB is returned.
C6_Readings50To500ArePpb ==
  (DetectCall /\ Present(call.samples) # { }
   /\ AllWithin50And500(call.samples)) =>
    PpbFamilyWins(call.ret)

\* the dataset of one sample Pb=80, Cr=150, Zn=300
C6_Witness ==
  /\ DetectCall
  /\ call.samples = << LabSample >>
  /\ call.ret.unitScores["PPB"] = 3
  /\ call.ret.unitScores["MG_L"] = 0
  /\ call.ret.result = "PPB"

\* C7: every spelling of a unit (the registry's symbol and name, every key
\* of the mapping table), in any letter case and between any whitespace, is
\* parsed to that unit.
C7_SpellingsParse ==
  ParseCall =>
    \A unit \in Unit :
      call.spelling \in Spellings(unit) => call.result = unit

\* the registry's name of UG_L, upper-cased between whitespace
C7_Witness ==
  /\ ParseCall
  /\ call.spelling = UNIT_INFO["UG_L"].name
  /\ call.unitStr # call.spelling
  /\ call.unitStr # toLowerCase(call.spelling)
  /\ Len(call.unitStr) = Len(call.spelling) + 2
  /\ Head(call.unitStr) \in WhiteSpace
  /\ call.unitStr[Len(call.unitStr)] \in WhiteSpace
  /\ call.result = "UG_L"

EquivalentUnits(u1, u2) ==
  \/ u1 = u2
  \/ { u1, u2 } = { "MG_L", "PPM" }
  \/ { u1, u2 } = { "PPB", "UG_L" }

\* C8: convertUnit returns the value unchanged when the source and target
\* unit are the same or are the pair MG_L/PPM or the pair PPB/UG_L.
C8_EquivalentUnitsUnchanged ==
  (ConvertCall /\ EquivalentUnits(call.fromUnit, call.toUnit)) =>
    call.result = call.value

\* |r - v| <= 2^-50 * v, for finite r and v > 0
RelativelyClose(r, v) ==
  /\ r.k = "fin" /\ v.k = "fin" /\ r.s = v.s
  /\ LET e0 == Min(r.e, v.e)
         R == BigShl(r.m, r.e - e0)
         V == BigShl(v.m, v.e - e0)
         D == IF BigCmp(R, V) >= 0 THEN BigSub(R, V) ELSE BigSub(V, R)
     IN  BigCmp(BigShl(D, 50), V) <= 0

RoundTrip == ConvertCall /\ call.back /\ FGt(call.first, FromInt(0))

FactorsPositive == \A unit \in Unit : FGt(UNIT_INFO[unit].toMgL, FromInt(0))

\* C9 as stated: every factor is strictly positive, and a positive value
\* converted from u1 to u2 and back is the value again.
C9_RoundTripExact ==
  /\ FactorsPositive
  /\ RoundTrip => call.result = call.first

\* C9, amended: every factor is strictly positive, and a positive value v
\* converted from u1 to u2 and back is v again when u1 = u2 or both factors
\* are 1 (MG_L, PPM); otherwise, for v between 2^-1000 and 2^1000, it is v
\* up to the rounding of the multiplications and divisions: within a
\* relative error of 2^-50.
C9_RoundTripWithinRounding ==
  /\ FactorsPositive
  /\ RoundTrip =>
       /\ (FGe(call.first, Pow2(-1000)) /\ FLe(call.first, Pow2(1000))) =>
            RelativelyClose(call.result, call.first)
       /\ (\/ call.fromUnit = call.toUnit
           \/ /\ UNIT_INFO[call.fromUnit].toMgL = FromInt(1)
              /\ UNIT_INFO[call.toUnit].toMgL = FromInt(1)) =>
            call.result = call.first

\* 2.3 mg/L to ppb and back is not 2.3 but within rounding of it
C9_Witness ==
  /\ RoundTrip
  /\ call.first = Dec(23, 1)
  /\ call.toUnit = "MG_L"
  /\ call.fromUnit = "PPB"
  /\ call.result # call.first
  /\ RelativelyClose(call.result, call.first)

\* C10: the score of each unit is the number of strictly positive readings,
\* each occurrence counted once, that lie in the [min, max] range of at
\* least one metal for that unit, whatever metal they were recorded under.
C10_ScoreCountsValuesInSomeRange ==
  (DetectCall /\ call.ret.at = "scored") =>
    \A unit \in Unit :
      call.ret.unitScores[unit] =
        Cardinality({ p \in Positive(call.samples) :
                        \E metal \in Metal :
                          /\ FGe(Reading(call.samples, p),
                                 TYPICAL_RANGES[metal][unit].min)
                          /\ FLe(Reading(call.samples, p),
                                 TYPICAL_RANGES[metal][unit].max) })

\* two readings of 5 under Pb: 5 is outside every range of Pb, inside the
\* MG_L range of Zn alone and inside several metals' PPB ranges, and each
\* occurrence adds 1 to every unit
C10_Witness ==
  /\ DetectCall
  /\ call.samples = << OneReading("Pb", FromInt(5)), OneReading("Pb", FromInt(5)) >>
  /\ \A unit \in Unit : call.ret.unitScores[unit] = 2
  /\ ~ (/\ FGe(FromInt(5), TYPICAL_RANGES["Pb"]["MG_L"].min)
        /\ FLe(FromInt(5), TYPICAL_RANGES["Pb"]["MG_L"].max))
  /\ Cardinality({ metal \in Metal :
                     /\ FGe(FromInt(5), TYPICAL_RANGES[metal]["PPB"].min)
                     /\ FLe(FromInt(5), TYPICAL_RANGES[metal]["PPB"].max) }) > 1
====
